---- MODULE Spec2Model ----
(***************************************************************************)
(* The e-commerce dashboard of src/dashboard/app.py (dash.py holds the     *)
(* same load_data, calculate_rfm and filter code and a subset of the       *)
(* sections).  One script run is main(): load_data, the sidebar widgets,   *)
(* the filter mask, then the sections in the order main calls them.  A     *)
(* widget change reruns the script from the top with the widget values     *)
(* kept.                                                                   *)
(*                                                                         *)
(* Values.  Numbers are integers.  A missing number is NaN, a missing      *)
(* timestamp is NaT, a missing string is NaStr.  A timestamp counts ticks, *)
(* DayLen ticks to the calendar day, so that the calendar date of a        *)
(* timestamp and the whole days of a timestamp difference are conversions  *)
(* and not identities.  A mean is kept exact as <<sum, count>>.            *)
(*                                                                         *)
(* Not modelled: the drawing calls (streamlit, plotly, seaborn,            *)
(* matplotlib); only the table computations that feed them are.            *)
(***************************************************************************)
EXTENDS Integers, Sequences, FiniteSets, TLC

VARIABLES file, pc, err, df, date_range, selected_category, selected_payment,
          filtered_df, view, first_pass

vars == <<file, pc, err, df, date_range, selected_category, selected_payment,
          filtered_df, view, first_pass>>

-----------------------------------------------------------------------------
(* Bounds of the model *)

\* ticks to one calendar day
DayLen == 2
\* largest timestamp of a row, in ticks
MaxTs == 3
\* rows of a table in the families that vary the rows freely
MaxRows == 2
\* rows beyond TopN in the family that exercises the top-5 selections
MaxExtra == 2

(* Program constants *)

\* nlargest(5, ...) / nsmallest(5, ...)
TopN == 5
\* nlargest(10) of the city counts, head(10) of the delivery-time means
TopCities == 10
\* pd.DateOffset(years=1): never less than 365 days
YearDays == 365
\* pd.DateOffset(months=6): never less than 181 days
HalfYearDays == 181

(* Missing values *)

\* float NaN: an empty numeric cell read by read_csv
NaN == -999
\* pd.NaT: what to_datetime(errors='coerce') gives for an empty or bad cell
NaT == -999
\* a raw date cell that does not parse
BadDate == -998
\* NaN in an object (string) column
NaStr == "nan"
\* the sentinel option of the two select boxes
All == "All"

\* the absence of a table (load_data has not returned one)
NoTable == [columns |-> {}, rows |-> <<>>]

-----------------------------------------------------------------------------
(* Sequences *)

Range(s) == {s[i] : i \in 1..Len(s)}

RECURSIVE SeqSum(_)
SeqSum(s) == IF s = <<>> THEN 0 ELSE Head(s) + SeqSum(Tail(s))

RECURSIVE SetToSeq(_)
\* the elements of a finite set of integers in ascending order
SetToSeq(S) ==
    IF S = {} THEN <<>>
    ELSE LET m == CHOOSE x \in S : \A y \in S : x <= y
         IN  <<m>> \o SetToSeq(S \ {m})

Min(S) == CHOOSE x \in S : \A y \in S : x <= y
Max(S) == CHOOSE x \in S : \A y \in S : x >= y

-----------------------------------------------------------------------------
(* pandas column operations, as the code uses them *)

\* pd.to_datetime(col, errors='coerce') on one cell
ToDatetime(raw) == IF raw \in {NaN, BadDate} THEN NaT ELSE raw

\* Timestamp.date() / Series.dt.date on one cell: the calendar day
DtDate(ts) == IF ts = NaT THEN NaT ELSE ts \div DayLen

\* Timedelta.days / Series.dt.days of (a - b): whole days, floored
DtDays(a, b) == IF a = NaT \/ b = NaT THEN NaN ELSE (a - b) \div DayLen

\* (mutant) an addition that takes a missing value for 0
AddFillZero(a, b) ==
    (IF a = NaN THEN 0 ELSE a) + (IF b = NaN THEN 0 ELSE b)

\* df['price'] + df['freight_value'] on one row: NaN propagates
Add(a, b) == IF a = NaN \/ b = NaN THEN NaN ELSE a + b

\* (mutant) an equality that a missing cell passes
EqCmpNaMatches(x, v) == x = NaStr \/ x = v

\* Series >= scalar, Series <= scalar, Series == scalar on one cell: a missing
\* cell compares False
GeCmp(x, v) == x # NaT /\ v # NaT /\ x >= v
LeCmp(x, v) == x # NaT /\ v # NaT /\ x <= v
LtCmp(x, v) == x # NaT /\ v # NaT /\ x < v
EqCmp(x, v) == x # NaStr /\ v # NaStr /\ x = v

\* the non-missing values of a column, in row order
Present(rows, col, na) ==
    LET F[i \in 0..Len(rows)] ==
            IF i = 0 THEN <<>>
            ELSE IF rows[i][col] = na THEN F[i - 1]
                 ELSE Append(F[i - 1], rows[i][col])
    IN  F[Len(rows)]

\* Series.sum(): missing values are skipped, the empty sum is 0
Sum(rows, col) == SeqSum(Present(rows, col, NaN))

\* Series.count(): the non-missing values
Count(rows, col, na) == Len(Present(rows, col, na))

\* Series.nunique(): the distinct non-missing values
NUnique(rows, col, na) == Cardinality(Range(Present(rows, col, na)))

\* the mean of no values: NaN (kept as the quotient NaN / 1)
NaNMean == <<NaN, 1>>

\* Series.mean(): missing values are skipped; NaN when nothing is left
Mean(rows, col) ==
    IF Count(rows, col, NaN) = 0 THEN NaNMean
    ELSE <<Sum(rows, col), Count(rows, col, NaN)>>

\* Series.max() / Series.min() of a datetime column: NaT when nothing is left
TsMax(rows, col) ==
    LET S == Range(Present(rows, col, NaT)) IN IF S = {} THEN NaT ELSE Max(S)
TsMin(rows, col) ==
    LET S == Range(Present(rows, col, NaT)) IN IF S = {} THEN NaT ELSE Min(S)

\* Series.unique(): the distinct values, the missing one included
Unique(rows, col) == {rows[i][col] : i \in 1..Len(rows)}

\* (mutant) group keys that keep the missing key, as groupby(dropna=False)
GroupKeysWithNa(rows, col, na) == Unique(rows, col)

\* the group keys of df.groupby(col): missing keys are dropped
GroupKeys(rows, col, na) == Unique(rows, col) \ {na}

\* the rows of one group, in row order
Group(rows, col, k) == SelectSeq(rows, LAMBDA r : r[col] = k)

-----------------------------------------------------------------------------
(* The CSV file *)

\* the columns load_data converts with to_datetime
date_columns ==
    {"order_purchase_timestamp", "order_approved_at",
     "order_delivered_carrier_date", "order_delivered_customer_date",
     "order_estimated_delivery_date"}

\* the columns every file of the model has
BaseColumns ==
    {"order_id", "customer_unique_id", "customer_state", "customer_city",
     "product_category_name", "payment_type", "payment_installments",
     "payment_value", "review_score", "order_approved_at",
     "order_delivered_carrier_date", "order_estimated_delivery_date"}

\* the columns a file of the model may lack
OptionalColumns ==
    {"price", "freight_value", "order_purchase_timestamp",
     "order_delivered_customer_date", "delivery_time"}

StringColumns ==
    {"customer_state", "customer_city", "product_category_name", "payment_type"}

FileColumns == BaseColumns \cup OptionalColumns

\* a cell of a column the file does not have
Filler(c) == IF c \in StringColumns THEN NaStr ELSE NaN

\* one well-formed row of the file
BaseRow ==
    [order_id |-> 1, customer_unique_id |-> 1, customer_state |-> "SP",
     customer_city |-> "sao paulo", product_category_name |-> "toys",
     payment_type |-> "credit_card", payment_installments |-> 1,
     payment_value |-> 1, review_score |-> 5, price |-> 1, freight_value |-> 0,
     order_purchase_timestamp |-> 0, order_approved_at |-> 0,
     order_delivered_carrier_date |-> BadDate,
     order_delivered_customer_date |-> DayLen,
     order_estimated_delivery_date |-> NaN, delivery_time |-> NaN]

\* a row as a file with the columns cols holds it
Cells(r, cols) == [c \in FileColumns |-> IF c \in cols THEN r[c] ELSE Filler(c)]

CsvFile(cols, rs) ==
    [exists |-> TRUE, columns |-> cols,
     rows |-> [i \in 1..Len(rs) |-> Cells(rs[i], cols)]]

\* a path at which there is no file
MissingFile == [exists |-> FALSE, columns |-> {}, rows |-> <<>>]

\* the columns of the cleaned data set, without and with a stored delivery_time
CleanColumns == FileColumns \ {"delivery_time"}

-----------------------------------------------------------------------------
(* load_data *)

\* the columns of the table load_data returns for a file with the columns cols
LoadedColumns(cols) ==
    cols \cup {"total_value"}
         \cup (IF {"order_delivered_customer_date", "order_purchase_timestamp"}
                       \subseteq cols
                THEN {"delivery_time"} ELSE {})

\* one row of the returned table: the date columns parsed, total_value and
\* delivery_time assigned, everything else as read; idx is the row label
LoadedRow(r, i, cols) ==
    LET parsed == [c \in FileColumns |->
                     IF c \in date_columns /\ c \in cols
                     THEN ToDatetime(r[c]) ELSE r[c]]
    IN  [c \in FileColumns \cup {"total_value", "idx"} |->
           CASE c = "idx" -> i - 1
             [] c = "total_value" ->
                  Add(parsed["price"], parsed["freight_value"])
             [] c = "delivery_time" ->
                  IF {"order_delivered_customer_date", "order_purchase_timestamp"}
                         \subseteq cols
                  THEN DtDays(parsed["order_delivered_customer_date"],
                              parsed["order_purchase_timestamp"])
                  ELSE parsed["delivery_time"]
             [] OTHER -> parsed[c]]

\* (mutant) a column check that is content with one of the two columns
LoadOutcomeEither(f) ==
    IF ~f.exists THEN "FileNotFoundError"
    ELSE IF "price" \in f.columns \/ "freight_value" \in f.columns THEN "ok"
    ELSE "KeyError"

\* how load_data ends for the file f
LoadOutcome(f) ==
    IF ~f.exists THEN "FileNotFoundError"
    ELSE IF "price" \in f.columns /\ "freight_value" \in f.columns THEN "ok"
    ELSE "KeyError"

\* the table load_data returns (when LoadOutcome is "ok")
LoadedTable(f) ==
    [columns |-> LoadedColumns(f.columns),
     rows |-> [i \in 1..Len(f.rows) |-> LoadedRow(f.rows[i], i, f.columns)]]

-----------------------------------------------------------------------------
(* main: the sidebar defaults and the filter mask *)

\* the default of the date picker: (min, max) of the purchase timestamps,
\* which the picker keeps as calendar dates
DefaultDateRange(t) ==
    <<DtDate(TsMin(t.rows, "order_purchase_timestamp")),
      DtDate(TsMax(t.rows, "order_purchase_timestamp"))>>

\* the options of the two select boxes
CategoryOptions(t) == {All} \cup Unique(t.rows, "product_category_name")
PaymentOptions(t) == {All} \cup Unique(t.rows, "payment_type")

\* (mutant) a mask whose date range leaves out its last day
MaskOpenEnd(r, dr, cat, pay) ==
    /\ GeCmp(DtDate(r["order_purchase_timestamp"]), dr[1])
    /\ LtCmp(DtDate(r["order_purchase_timestamp"]), dr[2])
    /\ cat # All => EqCmp(r["product_category_name"], cat)
    /\ pay # All => EqCmp(r["payment_type"], pay)

\* the mask of one row
Mask(r, dr, cat, pay) ==
    LET m0 == /\ GeCmp(DtDate(r["order_purchase_timestamp"]), dr[1])
              /\ LeCmp(DtDate(r["order_purchase_timestamp"]), dr[2])
        m1 == IF cat # All
              THEN m0 /\ EqCmp(r["product_category_name"], cat) ELSE m0
        m2 == IF pay # All
              THEN m1 /\ EqCmp(r["payment_type"], pay) ELSE m1
    IN  m2

\* df[mask]
Filtered(t, dr, cat, pay) ==
    [columns |-> t.columns,
     rows |-> SelectSeq(t.rows, LAMBDA r : Mask(r, dr, cat, pay))]

-----------------------------------------------------------------------------
(* The aggregations of the sections *)

\* a mean a / b is larger than a mean c / d (NaN is larger than nothing)
MeanGt(x, y) == x[1] # NaN /\ y[1] # NaN /\ x[1] * y[2] > y[1] * x[2]

\* the keys head(n) / nlargest(n) keeps of the table f over keys
HeadKeys(keys, n, gt) ==
    IF Cardinality(keys) <= n THEN keys
    ELSE CHOOSE T \in SUBSET keys :
             /\ Cardinality(T) = n
             /\ \A a \in T, b \in keys \ T : <<b, a>> \notin gt

create_overview_metrics(rows) ==
    [orders |-> NUnique(rows, "order_id", NaN),
     revenue |-> Sum(rows, "total_value"),
     avg_value |-> Mean(rows, "total_value"),
     avg_delivery |-> Mean(rows, "delivery_time")]

\* df['payment_type'].value_counts()
create_payment_distribution(rows) ==
    [k \in GroupKeys(rows, "payment_type", NaStr) |->
        Len(Group(rows, "payment_type", k))]

\* the rows bought within the last `days` days before the latest purchase
LastDays(rows, days) ==
    LET latest == TsMax(rows, "order_purchase_timestamp")
        cutoff == IF latest = NaT THEN NaT ELSE latest - days * DayLen
    IN  SelectSeq(rows, LAMBDA r : GeCmp(r["order_purchase_timestamp"], cutoff))

create_avg_delivery_time(rows) ==
    LET last == LastDays(rows, YearDays)
        m == [k \in GroupKeys(last, "product_category_name", NaStr) |->
                Mean(Group(last, "product_category_name", k), "delivery_time")]
        top == HeadKeys(DOMAIN m, TopCities,
                        {p \in (DOMAIN m) \X (DOMAIN m) : MeanGt(m[p[1]], m[p[2]])})
    IN  [k \in top |-> m[k]]

create_payment_total(rows) ==
    LET last == LastDays(rows, HalfYearDays)
    IN  [k \in GroupKeys(last, "payment_type", NaStr) |->
            Sum(Group(last, "payment_type", k), "payment_value")]

create_payment_review(rows) ==
    LET last == LastDays(rows, HalfYearDays)
    IN  [k \in GroupKeys(last, "payment_type", NaStr) |->
            Mean(Group(last, "payment_type", k), "review_score")]

create_time_series(rows) ==
    LET day(r) == DtDate(r["order_purchase_timestamp"])
        days == {day(rows[i]) : i \in 1..Len(rows)} \ {NaT}
        of(d) == SelectSeq(rows, LAMBDA r : day(r) = d)
    IN  [d \in days |->
            [order_id |-> NUnique(of(d), "order_id", NaN),
             total_value |-> Sum(of(d), "total_value")]]

create_customer_demographics(rows) ==
    LET st == [k \in GroupKeys(rows, "customer_state", NaStr) |->
                 NUnique(Group(rows, "customer_state", k), "customer_unique_id", NaN)]
        ct == [k \in GroupKeys(rows, "customer_city", NaStr) |->
                 NUnique(Group(rows, "customer_city", k), "customer_unique_id", NaN)]
        top == HeadKeys(DOMAIN ct, TopCities,
                        {p \in (DOMAIN ct) \X (DOMAIN ct) : ct[p[1]] > ct[p[2]]})
    IN  [state_counts |-> st, city_counts |-> [k \in top |-> ct[k]]]

create_product_insights(rows) ==
    [k \in GroupKeys(rows, "product_category_name", NaStr) |->
        LET g == Group(rows, "product_category_name", k)
        IN  [total_value |-> Sum(g, "total_value"),
             delivery_time |-> Mean(g, "delivery_time"),
             review_score |-> Mean(g, "review_score")]]

create_payment_analysis(rows) ==
    [payment_stats |->
        [k \in GroupKeys(rows, "payment_type", NaStr) |->
            LET g == Group(rows, "payment_type", k)
            IN  [total_value |-> Sum(g, "total_value"),
                 review_score |-> Mean(g, "review_score")]],
     installment_stats |->
        [k \in GroupKeys(rows, "payment_installments", NaN) |->
            LET g == Group(rows, "payment_installments", k)
            IN  [total_value |-> Mean(g, "total_value"),
                 review_score |-> Mean(g, "review_score")]]]

-----------------------------------------------------------------------------
(* RFM *)

\* one record per group of customer_unique_id, in the order of the keys
calculate_rfm(rows) ==
    LET max_date == TsMax(rows, "order_purchase_timestamp")
        keys == SetToSeq(GroupKeys(rows, "customer_unique_id", NaN))
    IN  [i \in 1..Len(keys) |->
            LET g == Group(rows, "customer_unique_id", keys[i])
            IN  [customer_unique_id |-> keys[i],
                 recency |-> DtDays(max_date, TsMax(g, "order_purchase_timestamp")),
                 frequency |-> Count(g, "order_id", NaN),
                 monetary |-> Sum(g, "total_value")]]

\* s without its i-th element
Without(s, i) == SubSeq(s, 1, i - 1) \o SubSeq(s, i + 1, Len(s))

\* the order of nlargest and of nsmallest: a missing value comes last in both
NaGt(a, b) == a # NaN /\ (b = NaN \/ a > b)
NaLt(a, b) == a # NaN /\ (b = NaN \/ a < b)

\* (mutant) the first n rows, unsorted, as head(n)
NLargestHead(t, n, metric) == SubSeq(t, 1, IF Len(t) < n THEN Len(t) ELSE n)

RECURSIVE NLargest(_, _, _)
\* DataFrame.nlargest(n, metric): the n largest, largest first, the earlier
\* row first among equals
NLargest(t, n, metric) ==
    IF n = 0 \/ t = <<>> THEN <<>>
    ELSE LET i == CHOOSE i \in 1..Len(t) :
                     /\ \A j \in 1..Len(t) : ~NaGt(t[j][metric], t[i][metric])
                     /\ \A j \in 1..(i - 1) : NaGt(t[i][metric], t[j][metric])
         IN  <<t[i]>> \o NLargest(Without(t, i), n - 1, metric)

RECURSIVE NSmallest(_, _, _)
\* DataFrame.nsmallest(n, metric): the n smallest, smallest first, the earlier
\* row first among equals
NSmallest(t, n, metric) ==
    IF n = 0 \/ t = <<>> THEN <<>>
    ELSE LET i == CHOOSE i \in 1..Len(t) :
                     /\ \A j \in 1..Len(t) : ~NaLt(t[j][metric], t[i][metric])
                     /\ \A j \in 1..(i - 1) : NaLt(t[i][metric], t[j][metric])
         IN  <<t[i]>> \o NSmallest(Without(t, i), n - 1, metric)

create_rfm_analysis(rows) ==
    LET rfm == calculate_rfm(rows)
    IN  [rfm |-> rfm,
         recency |-> NSmallest(rfm, TopN, "recency"),
         frequency |-> NLargest(rfm, TopN, "frequency"),
         monetary |-> NLargest(rfm, TopN, "monetary")]

-----------------------------------------------------------------------------
(* The files of the model.  Every file that loads holds a row with a        *)
(* purchase timestamp that parses: the date picker is given the minimum and *)
(* the maximum of the column as its bounds.                                 *)

\* the sequences over S of 1 to n elements
SeqsUpTo(S, n) == UNION {[1..k -> S] : k \in 1..n}

HasPurchase(rs) ==
    \E i \in 1..Len(rs) : ToDatetime(rs[i]["order_purchase_timestamp"]) # NaT

\* raw date cells: empty, unparseable, early, late
RawDates == {NaN, BadDate, 1, MaxTs}

\* files that vary what load_data reads and derives: a well-formed row and a
\* row with every combination of missing, bad and present cells
LoadRows ==
    {[BaseRow EXCEPT !["price"] = p, !["freight_value"] = f,
                     !["order_purchase_timestamp"] = t,
                     !["order_delivered_customer_date"] = d,
                     !["delivery_time"] = s, !["order_id"] = 2] :
        p \in {NaN, 0, 2}, f \in {NaN, 1}, t \in RawDates,
        d \in {NaN, BadDate, 0, MaxTs + DayLen}, s \in {NaN, 7}}

LoadFiles ==
    {CsvFile(cols, <<BaseRow, r>>) :
        cols \in {CleanColumns, FileColumns}, r \in LoadRows}

\* files that lack columns
SchemaFiles ==
    {CsvFile(BaseColumns \cup opt,
             <<BaseRow, [BaseRow EXCEPT !["order_purchase_timestamp"] = MaxTs,
                                        !["product_category_name"] = "books",
                                        !["payment_type"] = "boleto",
                                        !["delivery_time"] = 7]>>) :
        opt \in SUBSET OptionalColumns}

\* files that vary what the filters read
FilterRows ==
    {[BaseRow EXCEPT !["product_category_name"] = c,
                     !["order_purchase_timestamp"] = t] :
        c \in {"toys", "books", NaStr}, t \in {NaN, 0, MaxTs}}
    \cup
    {[BaseRow EXCEPT !["payment_type"] = p,
                     !["order_purchase_timestamp"] = t] :
        p \in {"boleto", NaStr}, t \in {0, MaxTs}}

FilterFiles ==
    {CsvFile(CleanColumns, rs) :
        rs \in {x \in SeqsUpTo(FilterRows, MaxRows) : HasPurchase(x)}}

\* files that vary what calculate_rfm reads: the i-th row is of one of the
\* first i customers (or of none) and of one of the first i orders; and files
\* of one order to a customer with one such row more
RfmRow(i) ==
    {[BaseRow EXCEPT !["customer_unique_id"] = c, !["order_id"] = o,
                     !["price"] = i, !["order_purchase_timestamp"] = t] :
        c \in (1..i) \cup {NaN}, o \in 1..i, t \in {BadDate, 0, MaxTs}}

RfmFiles ==
    {CsvFile(CleanColumns, rs) :
        rs \in {x \in UNION {[1..k -> UNION {RfmRow(i) : i \in 1..k}] :
                                k \in 1..MaxRows} :
                    /\ HasPurchase(x)
                    /\ \A i \in 1..Len(x) : x[i] \in RfmRow(i)}}
    \cup
    {CsvFile(CleanColumns,
             [i \in 1..MaxRows |->
                [BaseRow EXCEPT !["customer_unique_id"] = i, !["order_id"] = i,
                                !["price"] = i,
                                !["order_purchase_timestamp"] = i % (MaxTs + 1)]]
             \o <<r>>) :
        r \in RfmRow(MaxRows + 1)}

\* files with more customers than a top-5 selection keeps: one row to a
\* customer, the last row an order more of customer 1; prices vary freely
TopFiles ==
    {CsvFile(CleanColumns,
             [i \in 1..n |->
                [BaseRow EXCEPT
                    !["customer_unique_id"] = IF i > TopN + 1 THEN 1 ELSE i,
                    !["order_id"] = i, !["price"] = price[i],
                    !["product_category_name"] =
                        IF i % 3 = 0 THEN "books" ELSE "toys",
                    !["order_purchase_timestamp"] = (i * 3) % (MaxTs + 1)]]) :
        n \in {TopN + MaxExtra}, price \in [1..(TopN + MaxExtra) -> {1, 2}]}

Files == {MissingFile} \cup LoadFiles \cup SchemaFiles \cup FilterFiles
                       \cup RfmFiles \cup TopFiles

-----------------------------------------------------------------------------
(* The script run *)

\* what the sections have put on the page
NoView ==
    [metrics |-> <<>>, payment_distribution |-> <<>>, avg_delivery_time |-> <<>>,
     payment_total |-> <<>>, payment_review |-> <<>>, time_series |-> <<>>,
     demographics |-> <<>>, product_insights |-> <<>>, rfm_analysis |-> <<>>,
     payment_analysis |-> <<>>]

\* a record kept beside the program: the first pass that rendered every
\* section, with its filters and its page, and whether a widget has been
\* changed since the script first ran
NoPass ==
    [set |-> FALSE, moved |-> FALSE, date_range |-> <<>>, category |-> All,
     payment |-> All, filtered |-> NoTable, view |-> NoView]

Init ==
    /\ file \in Files
    /\ pc = "load_data"
    /\ err = "none"
    /\ df = NoTable
    /\ date_range = <<>>
    /\ selected_category = All
    /\ selected_payment = All
    /\ filtered_df = NoTable
    /\ view = NoView
    /\ first_pass = NoPass

\* an uncaught exception ends the pass
Raise(e) ==
    /\ pc' = "failed"
    /\ err' = e

\* load_data raises: the path does not exist
LoadDataNotFound ==
    /\ pc = "load_data"
    /\ LoadOutcome(file) = "FileNotFoundError"
    /\ Raise("FileNotFoundError")
    /\ UNCHANGED <<file, df, date_range, selected_category, selected_payment,
                   filtered_df, view, first_pass>>

\* load_data raises: price or freight_value is not a column
LoadDataMissingColumn ==
    /\ pc = "load_data"
    /\ LoadOutcome(file) = "KeyError"
    /\ Raise("KeyError")
    /\ UNCHANGED <<file, df, date_range, selected_category, selected_payment,
                   filtered_df, view, first_pass>>

\* load_data returns the table
LoadDataOk ==
    /\ pc = "load_data"
    /\ LoadOutcome(file) = "ok"
    /\ df' = LoadedTable(file)
    /\ pc' = "sidebar"
    /\ UNCHANGED <<file, err, date_range, selected_category, selected_payment,
                   filtered_df, view, first_pass>>

\* the sidebar: the date picker and the two select boxes give their defaults
\* on the first pass and the user's choice afterwards
Sidebar ==
    /\ pc = "sidebar"
    /\ IF "order_purchase_timestamp" \notin df.columns
       THEN /\ Raise("KeyError")
            /\ UNCHANGED date_range
       ELSE /\ date_range' = IF date_range = <<>> THEN DefaultDateRange(df)
                                                 ELSE date_range
            /\ pc' = "filter"
            /\ UNCHANGED err
    /\ UNCHANGED <<file, df, selected_category, selected_payment, filtered_df,
                   view, first_pass>>

\* (mutant) a filter that overwrites the loaded table: df = df[mask]
ApplyFiltersInPlace ==
    /\ pc = "filter"
    /\ IF Len(date_range) < 2
       THEN /\ Raise("IndexError")
            /\ UNCHANGED <<df, filtered_df>>
       ELSE /\ filtered_df' = Filtered(df, date_range, selected_category,
                                       selected_payment)
            /\ df' = filtered_df'
            /\ pc' = "create_overview_metrics"
            /\ UNCHANGED err
    /\ UNCHANGED <<file, date_range, selected_category, selected_payment,
                   view, first_pass>>

\* the mask and df[mask]
ApplyFilters ==
    /\ pc = "filter"
    /\ IF Len(date_range) < 2
       THEN /\ Raise("IndexError")
            /\ UNCHANGED filtered_df
       ELSE /\ filtered_df' = Filtered(df, date_range, selected_category,
                                       selected_payment)
            /\ pc' = "create_overview_metrics"
            /\ UNCHANGED err
    /\ UNCHANGED <<file, df, date_range, selected_category, selected_payment,
                   view, first_pass>>

\* a section that reads columns every table has
Section(at, next, field, value) ==
    /\ pc = at
    /\ view' = [view EXCEPT ![field] = value]
    /\ pc' = next
    /\ UNCHANGED <<file, err, df, date_range, selected_category,
                   selected_payment, filtered_df, first_pass>>

\* the four metrics; the last one reads delivery_time
CreateOverviewMetrics ==
    /\ pc = "create_overview_metrics"
    /\ IF "delivery_time" \notin filtered_df.columns
       THEN /\ Raise("KeyError")
            /\ UNCHANGED view
       ELSE /\ view' = [view EXCEPT
                            !.metrics = create_overview_metrics(filtered_df.rows)]
            /\ pc' = "create_payment_distribution"
            /\ UNCHANGED err
    /\ UNCHANGED <<file, df, date_range, selected_category, selected_payment,
                   filtered_df, first_pass>>

CreatePaymentDistribution ==
    Section("create_payment_distribution", "create_avg_delivery_time",
            "payment_distribution", create_payment_distribution(filtered_df.rows))

CreateAvgDeliveryTime ==
    Section("create_avg_delivery_time", "create_payment_total",
            "avg_delivery_time", create_avg_delivery_time(filtered_df.rows))

CreatePaymentTotal ==
    Section("create_payment_total", "create_payment_review",
            "payment_total", create_payment_total(filtered_df.rows))

CreatePaymentReview ==
    Section("create_payment_review", "create_time_series",
            "payment_review", create_payment_review(filtered_df.rows))

CreateTimeSeries ==
    Section("create_time_series", "create_customer_demographics",
            "time_series", create_time_series(filtered_df.rows))

CreateCustomerDemographics ==
    Section("create_customer_demographics", "create_product_insights",
            "demographics", create_customer_demographics(filtered_df.rows))

CreateProductInsights ==
    Section("create_product_insights", "create_rfm_analysis",
            "product_insights", create_product_insights(filtered_df.rows))

CreateRfmAnalysis ==
    Section("create_rfm_analysis", "create_payment_analysis",
            "rfm_analysis", create_rfm_analysis(filtered_df.rows))

\* the last section; the pass is complete
CreatePaymentAnalysis ==
    /\ pc = "create_payment_analysis"
    /\ view' = [view EXCEPT
                    !.payment_analysis = create_payment_analysis(filtered_df.rows)]
    /\ pc' = "done"
    /\ first_pass' =
          IF first_pass.set THEN first_pass
          ELSE [set |-> TRUE, moved |-> first_pass.moved,
                date_range |-> date_range,
                category |-> selected_category, payment |-> selected_payment,
                filtered |-> filtered_df, view |-> view']
    /\ UNCHANGED <<file, err, df, date_range, selected_category,
                   selected_payment, filtered_df>>

\* a widget change reruns the script from the top: the widgets keep their
\* values, everything the script computed is gone
Rerun ==
    /\ pc \in {"done", "failed"}
    /\ date_range # <<>>
    /\ pc' = "load_data"
    /\ err' = "none"
    /\ df' = NoTable
    /\ filtered_df' = NoTable
    /\ view' = NoView
    /\ first_pass' = [first_pass EXCEPT !.moved = TRUE]
    /\ UNCHANGED file

\* the dates the picker offers: min_value to max_value
PickerDates ==
    DtDate(TsMin(df.rows, "order_purchase_timestamp")) ..
    DtDate(TsMax(df.rows, "order_purchase_timestamp"))

\* the user picks a range, or so far only its first date
ChangeDateRange ==
    /\ Rerun
    /\ \E d0 \in PickerDates :
          \/ date_range' = <<d0>>
          \/ \E d1 \in PickerDates : d0 <= d1 /\ date_range' = <<d0, d1>>
    /\ date_range' # date_range
    /\ UNCHANGED <<selected_category, selected_payment>>

ChangeCategory ==
    /\ Rerun
    /\ \E c \in CategoryOptions(df) \ {selected_category} :
          selected_category' = c
    /\ UNCHANGED <<date_range, selected_payment>>

ChangePayment ==
    /\ Rerun
    /\ \E p \in PaymentOptions(df) \ {selected_payment} :
          selected_payment' = p
    /\ UNCHANGED <<date_range, selected_category>>

Next ==
    \/ LoadDataNotFound
    \/ LoadDataMissingColumn
    \/ LoadDataOk
    \/ Sidebar
    \/ ApplyFilters
    \/ CreateOverviewMetrics
    \/ CreatePaymentDistribution
    \/ CreateAvgDeliveryTime
    \/ CreatePaymentTotal
    \/ CreatePaymentReview
    \/ CreateTimeSeries
    \/ CreateCustomerDemographics
    \/ CreateProductInsights
    \/ CreateRfmAnalysis
    \/ CreatePaymentAnalysis
    \/ ChangeDateRange
    \/ ChangeCategory
    \/ ChangePayment

Spec == Init /\ [][Next]_vars

-----------------------------------------------------------------------------
(* Claims *)

\* main has produced filtered_df in this pass
Produced == filtered_df.columns # {}

\* the row labels of a table, in row order
Labels(t) == [i \in 1..Len(t.rows) |-> t.rows[i]["idx"]]

\* the purchase of the row falls on a calendar day of d0 .. d1
WithinDays(r, d0, d1) ==
    /\ r["order_purchase_timestamp"] # NaT
    /\ d0 * DayLen <= r["order_purchase_timestamp"]
    /\ r["order_purchase_timestamp"] < (d1 + 1) * DayLen

\* the row satisfies every active predicate of the sidebar
Wanted(r) ==
    /\ WithinDays(r, date_range[1], date_range[2])
    /\ selected_category # All =>
          /\ r["product_category_name"] # NaStr
          /\ r["product_category_name"] = selected_category
    /\ selected_payment # All =>
          /\ r["payment_type"] # NaStr
          /\ r["payment_type"] = selected_payment

\* C1: the filtered table holds exactly the rows of the loaded table that
\* satisfy every active predicate (purchase day within [d0, d1] inclusive,
\* category equal to the selected one, payment type equal to the selected
\* one, "All" switching a predicate off), in the order of the loaded table.
C1_FilterContract ==
    Produced =>
        /\ \A r \in Range(df.rows) : r \in Range(filtered_df.rows) <=> Wanted(r)
        /\ Range(filtered_df.rows) \subseteq Range(df.rows)
        /\ \A j, k \in 1..Len(filtered_df.rows) :
              j < k => filtered_df.rows[j]["idx"] < filtered_df.rows[k]["idx"]

\* all three predicates are active and cut: a proper range of days, a
\* category and a payment type, with rows kept and rows dropped
C1_Witness ==
    /\ Produced
    /\ selected_category # All
    /\ selected_payment # All
    /\ date_range # DefaultDateRange(df)
    /\ Len(filtered_df.rows) >= 2
    /\ \E r \in Range(df.rows) :
          /\ r \notin Range(filtered_df.rows)
          /\ r["product_category_name"] = selected_category
          /\ r["payment_type"] = selected_payment
    /\ \E r \in Range(df.rows) :
          /\ r \notin Range(filtered_df.rows)
          /\ r["product_category_name"] # selected_category
          /\ WithinDays(r, date_range[1], date_range[2])

\* the rows a category filter leaves out: of another category or of none
\* (a missing category equals no selection, the "nan" option included), or
\* dropped by the date range or the payment type
FilteredOut ==
    SelectSeq(df.rows, LAMBDA r :
        \/ r["product_category_name"] = NaStr
        \/ r["product_category_name"] # selected_category
        \/ ~WithinDays(r, date_range[1], date_range[2])
        \/ /\ selected_payment # All
           /\ (r["payment_type"] = NaStr \/ r["payment_type"] # selected_payment))

\* C2: with a category selected, every row of the filtered table is of that
\* category, and the rows kept and the rows left out cover the loaded table
\* exactly once: no row twice, no row lost, rows without a category or
\* without a purchase timestamp included.
C2_CategoryPartition ==
    (Produced /\ selected_category # All) =>
        /\ \A r \in Range(filtered_df.rows) :
              /\ r["product_category_name"] = selected_category
              /\ r["product_category_name"] # NaStr
        /\ Len(filtered_df.rows) + Len(FilteredOut) = Len(df.rows)
        /\ Range(filtered_df.rows) \cap Range(FilteredOut) = {}
        /\ Range(filtered_df.rows) \cup Range(FilteredOut) = Range(df.rows)
        /\ Cardinality(Range(Labels(filtered_df))) = Len(filtered_df.rows)

\* a category is selected, a row of it is kept, and the table holds a row
\* without a category and a row without a purchase timestamp
C2_Witness ==
    /\ Produced
    /\ selected_category \notin {All, NaStr}
    /\ filtered_df.rows # <<>>
    /\ \E r \in Range(df.rows) : r["product_category_name"] = NaStr
    /\ \E r \in Range(df.rows) : r["order_purchase_timestamp"] = NaT

\* load_data has ended in this pass
Loaded == pc # "load_data"

\* C3: load_data ends in one of three ways: the path does not exist and it
\* raises the file-not-found error; else price or freight_value is not a
\* column and it raises the missing-column error; else it returns the
\* table.  No table is returned with either error.
C3_LoadOutcomes ==
    Loaded =>
        /\ ~file.exists =>
              pc = "failed" /\ err = "FileNotFoundError" /\ df = NoTable
        /\ (file.exists /\ ~({"price", "freight_value"} \subseteq file.columns)) =>
              pc = "failed" /\ err = "KeyError" /\ df = NoTable
        /\ (file.exists /\ {"price", "freight_value"} \subseteq file.columns) =>
              /\ df # NoTable
              /\ Len(df.rows) = Len(file.rows)
              /\ err # "FileNotFoundError"

\* the file has price and lacks freight_value, and load_data has raised the
\* missing-column error
C3_Witness ==
    /\ pc = "failed"
    /\ err = "KeyError"
    /\ df = NoTable
    /\ file.exists
    /\ "price" \in file.columns
    /\ "freight_value" \notin file.columns

\* the sections that aggregate, by their place in main
Aggregations ==
    {"create_overview_metrics", "create_payment_distribution",
     "create_avg_delivery_time", "create_payment_total", "create_payment_review",
     "create_time_series", "create_customer_demographics",
     "create_product_insights", "create_rfm_analysis", "create_payment_analysis"}

\* C4: total_value and delivery_time are on the table before any
\* aggregation runs: the table load_data returns has both, and no section
\* is reached with a table that lacks one.
C4_DerivedBeforeAggregation ==
    /\ df # NoTable => {"total_value", "delivery_time"} \subseteq df.columns
    /\ pc \in Aggregations =>
          {"total_value", "delivery_time"} \subseteq filtered_df.columns

\* the row of the file a row of the table was read from
FileRow(r) == file.rows[r["idx"] + 1]

\* total_value of a row is price + freight_value, and is missing when either
\* of the two is
TotalIsPricePlusFreight(r) ==
    IF r["price"] = NaN \/ r["freight_value"] = NaN
    THEN r["total_value"] = NaN
    ELSE r["total_value"] = r["price"] + r["freight_value"]

\* C5 as stated: total_value == price + freight_value on every row, and no
\* other column of the file that is not a date column is changed.
C5_TotalValueAndFrame ==
    df # NoTable =>
        \A r \in Range(df.rows) :
            /\ TotalIsPricePlusFreight(r)
            /\ \A c \in file.columns \ date_columns : r[c] = FileRow(r)[c]

\* C5 as amended: total_value == price + freight_value on every row, and no
\* column of the file is changed other than the date columns and
\* delivery_time, which load_data recomputes from the two dates when the file
\* has both.
C5_TotalValueAndFrameAmended ==
    df # NoTable =>
        \A r \in Range(df.rows) :
            /\ TotalIsPricePlusFreight(r)
            /\ \A c \in file.columns \ (date_columns \cup {"delivery_time"}) :
                  r[c] = FileRow(r)[c]
            /\ ({"order_delivered_customer_date", "order_purchase_timestamp"}
                    \subseteq file.columns) \/ "delivery_time" \notin file.columns
                    \/ r["delivery_time"] = FileRow(r)["delivery_time"]

\* a loaded table with a row of price 2 and freight 1, a row with a missing
\* price, and a stored delivery_time that load_data has replaced
C5_Witness ==
    /\ df # NoTable
    /\ \E r \in Range(df.rows) :
          r["price"] = 2 /\ r["freight_value"] = 1 /\ r["total_value"] = 3
    /\ \E r \in Range(df.rows) :
          /\ "delivery_time" \in file.columns
          /\ FileRow(r)["delivery_time"] # r["delivery_time"]

\* create_rfm_analysis has run in this pass
RfmShown == pc \in {"create_payment_analysis", "done"}

\* the rows of the filtered table of one customer
RowsOf(k) == SelectSeq(filtered_df.rows, LAMBDA r : r["customer_unique_id"] = k)

\* the customers of the filtered table
Customers ==
    {filtered_df.rows[i]["customer_unique_id"] : i \in 1..Len(filtered_df.rows)}
        \ {NaN}

\* the latest purchase among rows
Latest(rows) ==
    CHOOSE t \in {rows[i]["order_purchase_timestamp"] : i \in 1..Len(rows)} :
        \A i \in 1..Len(rows) : rows[i]["order_purchase_timestamp"] <= t

\* d is the number of whole days in a span of ticks
WholeDays(d, ticks) == d * DayLen <= ticks /\ ticks < (d + 1) * DayLen

\* the values of a column that are there, row by row, 0 for a missing one
Values(rows, col) ==
    [i \in 1..Len(rows) |-> IF rows[i][col] = NaN THEN 0 ELSE rows[i][col]]

\* C6: calculate_rfm gives one record to each customer_unique_id; recency
\* is the days from the customer's latest purchase to the latest purchase of
\* the table, frequency the number of the customer's orders, monetary the
\* sum of the customer's total_value.
C6_RfmRecords ==
    RfmShown =>
        LET rfm == view.rfm_analysis.rfm
        IN  /\ {rfm[i].customer_unique_id : i \in 1..Len(rfm)} = Customers
            /\ Len(rfm) = Cardinality(Customers)
            /\ \A i \in 1..Len(rfm) :
                  LET mine == RowsOf(rfm[i].customer_unique_id)
                  IN  /\ WholeDays(rfm[i].recency,
                                   Latest(filtered_df.rows) - Latest(mine))
                      /\ rfm[i].frequency =
                            Cardinality({mine[j]["order_id"] : j \in 1..Len(mine)})
                      /\ rfm[i].monetary = SeqSum(Values(mine, "total_value"))

\* no filter is active: the full range of days, "All" and "All"
NoFilter ==
    /\ date_range = DefaultDateRange(df)
    /\ selected_category = All
    /\ selected_payment = All

\* the sum of monetary over the RFM table
MonetaryTotal ==
    SeqSum([i \in 1..Len(view.rfm_analysis.rfm) |->
               view.rfm_analysis.rfm[i].monetary])

\* C7 as stated: with no filter active every monetary value is
\* non-negative, and monetary summed over the customers is total_value
\* summed over all rows of the loaded table.
C7_MonetaryTotal ==
    (RfmShown /\ NoFilter) =>
        /\ \A i \in 1..Len(view.rfm_analysis.rfm) :
              view.rfm_analysis.rfm[i].monetary >= 0
        /\ MonetaryTotal = SeqSum(Values(df.rows, "total_value"))

\* C7 as amended: with no filter active every monetary value is
\* non-negative, and monetary summed over the customers is total_value
\* summed over the rows of the loaded table that have a purchase timestamp
\* and a customer_unique_id.
C7_MonetaryTotalAmended ==
    (RfmShown /\ NoFilter) =>
        /\ \A i \in 1..Len(view.rfm_analysis.rfm) :
              view.rfm_analysis.rfm[i].monetary >= 0
        /\ MonetaryTotal =
              SeqSum(Values(SelectSeq(df.rows, LAMBDA r :
                                /\ r["order_purchase_timestamp"] # NaT
                                /\ r["customer_unique_id"] # NaN),
                            "total_value"))

\* no filter is active, two customers have a monetary value, and the table
\* holds a row without a purchase timestamp that has a total_value
C7_Witness ==
    /\ RfmShown
    /\ NoFilter
    /\ Len(view.rfm_analysis.rfm) >= 2
    /\ \E r \in Range(df.rows) :
          r["order_purchase_timestamp"] = NaT /\ r["total_value"] > 0
    /\ MonetaryTotal > 0

\* every section that has run shows nothing: no orders, no revenue, no
\* means, no groups, no RFM record
ShowsNothing ==
    /\ view.metrics # <<>> =>
          view.metrics = [orders |-> 0, revenue |-> 0, avg_value |-> NaNMean,
                          avg_delivery |-> NaNMean]
    /\ \A s \in {"payment_distribution", "avg_delivery_time", "payment_total",
                  "payment_review", "time_series", "product_insights"} :
          DOMAIN view[s] = {}
    /\ view.demographics # <<>> =>
          /\ DOMAIN view.demographics.state_counts = {}
          /\ DOMAIN view.demographics.city_counts = {}
    /\ view.rfm_analysis # <<>> =>
          \A s \in {"rfm", "recency", "frequency", "monetary"} :
              view.rfm_analysis[s] = <<>>
    /\ view.payment_analysis # <<>> =>
          /\ DOMAIN view.payment_analysis.payment_stats = {}
          /\ DOMAIN view.payment_analysis.installment_stats = {}

\* C8: when the filters match no row, no section raises, every section
\* shows an empty result, and the pass runs to its end.
C8_EmptyTableRenders ==
    (Produced /\ filtered_df.rows = <<>>) =>
        /\ pc # "failed"
        /\ err = "none"
        /\ ShowsNothing

\* the selection keeps min(5, customers) records of the RFM table, no
\* customer twice
SelectsFive(sel, rfm) ==
    /\ Len(sel) = (IF Len(rfm) < 5 THEN Len(rfm) ELSE 5)
    /\ Range(sel) \subseteq Range(rfm)
    /\ \A i, j \in 1..Len(sel) :
          i # j => sel[i].customer_unique_id # sel[j].customer_unique_id

\* C9: for each RFM metric create_rfm_analysis selects min(5, customers)
\* customers, none twice: for recency no customer left out has a smaller
\* value than one selected, for frequency and monetary none has a larger.
C9_TopFive ==
    RfmShown =>
        LET rfm == view.rfm_analysis.rfm
            left(sel) == Range(rfm) \ Range(sel)
        IN  /\ SelectsFive(view.rfm_analysis.recency, rfm)
            /\ SelectsFive(view.rfm_analysis.frequency, rfm)
            /\ SelectsFive(view.rfm_analysis.monetary, rfm)
            /\ \A u \in left(view.rfm_analysis.recency),
                  x \in Range(view.rfm_analysis.recency) : u.recency >= x.recency
            /\ \A u \in left(view.rfm_analysis.frequency),
                  x \in Range(view.rfm_analysis.frequency) :
                      u.frequency <= x.frequency
            /\ \A u \in left(view.rfm_analysis.monetary),
                  x \in Range(view.rfm_analysis.monetary) :
                      u.monetary <= x.monetary

\* more than five customers, and for each metric a customer left out whose
\* value is strictly worse than that of a customer selected
C9_Witness ==
    /\ RfmShown
    /\ Len(view.rfm_analysis.rfm) > 5
    /\ \E u \in Range(view.rfm_analysis.rfm) \ Range(view.rfm_analysis.recency),
          x \in Range(view.rfm_analysis.recency) : u.recency > x.recency
    /\ \E u \in Range(view.rfm_analysis.rfm) \ Range(view.rfm_analysis.frequency),
          x \in Range(view.rfm_analysis.frequency) : u.frequency < x.frequency
    /\ \E u \in Range(view.rfm_analysis.rfm) \ Range(view.rfm_analysis.monetary),
          x \in Range(view.rfm_analysis.monetary) : u.monetary < x.monetary

\* C10: the loaded table is the table load_data made of the file, whatever
\* filters have been chosen since; the filtered table is the one the filters
\* now selected give; and a pass that runs to its end under the filters of
\* the first pass shows again what the first pass showed.
C10_NoWriteBack ==
    /\ df # NoTable => df = LoadedTable(file)
    /\ Produced =>
          /\ filtered_df.columns = df.columns
          /\ \A r \in Range(df.rows) : r \in Range(filtered_df.rows) <=> Wanted(r)
    /\ (/\ pc = "done"
        /\ first_pass.set
        /\ date_range = first_pass.date_range
        /\ selected_category = first_pass.category
        /\ selected_payment = first_pass.payment) =>
          /\ filtered_df = first_pass.filtered
          /\ view = first_pass.view

\* filters were changed and changed back: a pass has run to its end under
\* the filters of the first pass, and they cut the table
C10_Witness ==
    /\ pc = "done"
    /\ first_pass.set
    /\ first_pass.moved
    /\ date_range = first_pass.date_range
    /\ selected_category = first_pass.category
    /\ selected_payment = first_pass.payment
    /\ Len(filtered_df.rows) < Len(df.rows)
    /\ filtered_df.rows # <<>>

\* delivery_time of a row is the whole days from its purchase to its delivery
\* to the customer, and is missing exactly when one of the two is
DeliveryTimeIsWholeDays(r) ==
    LET delivered == r["order_delivered_customer_date"]
        purchased == r["order_purchase_timestamp"]
        days == r["delivery_time"]
    IN  IF delivered = NaT \/ purchased = NaT
        THEN days = NaN
        ELSE /\ days # NaN
             /\ days * DayLen <= delivered - purchased
             /\ delivered - purchased < (days + 1) * DayLen

\* C11: on every row of the table load_data returns, delivery_time is the
\* customer-delivered date minus the purchase date in whole days, missing
\* exactly when one of the two timestamps is missing or could not be parsed;
\* and load_data returns the table of every file that has price and
\* freight_value, whatever its date cells hold.
C11_DeliveryTimeWholeDays ==
    /\ df # NoTable => \A r \in Range(df.rows) : DeliveryTimeIsWholeDays(r)
    /\ (/\ Loaded
        /\ file.exists
        /\ {"price", "freight_value"} \subseteq file.columns) => df # NoTable

====
